---------------------------- MODULE Spec2Model ----------------------------
(***************************************************************************)
(* A model of resultdownloader.py: the scrape loop over paginated result   *)
(* pages, the table-selection heuristic, the next-page detector, the       *)
(* merge/de-duplication step and the column normaliser.                    *)
(*                                                                         *)
(* Text is modelled as a sequence of one-character strings, so that        *)
(* trimming, substring tests, lower-casing and the split on a whitespace   *)
(* run are computed as the code computes them.                             *)
(***************************************************************************)
EXTENDS Integers, Sequences, FiniteSets, TLC

VARIABLES
    pc,          \* position in main / scrape_all_pages
    start_url,   \* args.url
    url,         \* scrape_all_pages: url
    visited,     \* scrape_all_pages: visited
    fetched,     \* the calls of fetch_html in order: [url, ok, page]
    html,        \* the markup of the page last fetched
    df,          \* scrape_all_pages: df (result of extract_results_table)
    all_frames,  \* scrape_all_pages: all_frames
    df_all,      \* main: df_all
    df_final,    \* main: df_final
    df_again,    \* select_and_order_columns applied to its own output
    out_file,    \* the writes of write_csv to args.output, in call order
    exit_code    \* the process exit status, None while running

vars == << pc, start_url, url, visited, fetched, html, df, all_frames,
           df_all, df_final, df_again, out_file, exit_code >>

---------------------------------------------------------------------------
(* Bounds of the model.                                                    *)

MaxTables  == 3   \* candidate tables on one page (table-selection runs)
MaxAnchors == 3   \* anchors on one page (next-page detector runs)
MaxFrames  == 2   \* accumulated frames (merge runs)
MaxRows    == 2   \* rows of one frame (merge and normaliser runs)
MaxPageNo  == 2   \* page numbers a link of the site can name (scrape runs)

---------------------------------------------------------------------------
(* Optional values: Python's None is the empty sequence, a present value  *)
(* x is << x >>.  A missing cell of a frame is NaN, which no text equals.  *)

None    == << >>
Some(x) == << x >>
Get(o)  == o[1]
NaN     == << "NaN" >>

Range(s) == { s[i] : i \in 1..Len(s) }

---------------------------------------------------------------------------
(* Text.                                                                   *)

TAB == "\t"
\* characters outside ASCII, named by code point
cSex    == "U+26A4"
cRaquo  == "U+00BB"
cSRaquo == "U+203A"
cAuml   == "U+00E4"
cAumlUp == "U+00C4"
Whitespace == { " ", TAB }

sPos    == << "P", "o", "s" >>
sNo     == << "N", "o" >>
sName   == << "N", "a", "m", "e" >>
sYear   == << "Y", "e", "a", "r", " ", "o", "f", " ", "B", "i", "r", "t", "h" >>
sTime   == << "T", "i", "m", "e" >>
sDiff   == << "D", "i", "f", "f" >>
sCat    == << "C", "a", "t" >>
sCatPos == << "C", "a", "t", " ", "P", "o", "s" >>
sCatDiff == << "C", "a", "t", " ", "D", "i", "f", "f" >>
sSex    == << cSex >>
sSexPos == << cSex, " ", "P", "o", "s" >>
sSexDiff == << cSex, " ", "D", "i", "f", "f" >>
sClub   == << "C", "l", "u", "b" >>
sPace   == << "P", "a", "c", "e" >>
sCity   == << "C", "i", "t", "y" >>
sStatus == << "S", "t", "a", "t", "u", "s" >>
sUciId  == << "U", "C", "I", "-", "I", "D" >>
sEmpty  == << >>
sNan    == << "n", "a", "n" >>

\* str.lower() on one character, for the letters the model's texts use.
LowerChar(c) ==
    CASE c = "N" -> "n" [] c = "E" -> "e" [] c = "X" -> "x" [] c = "T" -> "t"
      [] c = "P" -> "p" [] c = "O" -> "o" [] c = "S" -> "s" [] c = "A" -> "a"
      [] c = "M" -> "m" [] c = "R" -> "r" [] c = "W" -> "w" [] c = "I" -> "i"
      [] c = cAumlUp -> cAuml [] c = "C" -> "c" [] c = "H" -> "h" [] c = "G" -> "g"
      [] OTHER -> c

lower(s) == [ i \in 1..Len(s) |-> LowerChar(s[i]) ]

RECURSIVE lstrip(_)
lstrip(s) ==
    IF s # << >> /\ Head(s) \in Whitespace THEN lstrip(Tail(s)) ELSE s

RECURSIVE rstrip(_)
rstrip(s) ==
    IF s # << >> /\ s[Len(s)] \in Whitespace
    THEN rstrip(SubSeq(s, 1, Len(s) - 1)) ELSE s

\* str.strip()
strip(s) == rstrip(lstrip(s))

\* Python's `token in col` on strings.
Contains(token, col) ==
    \E i \in 1..(Len(col) - Len(token) + 1) :
        SubSeq(col, i, i + Len(token) - 1) = token

---------------------------------------------------------------------------
(* Frames: [columns |-> sequence of labels, rows |-> sequence of rows],    *)
(* each row a sequence of cells aligned with columns.  Column labels are   *)
(* text, on which str(c) is c itself.                                      *)

EmptyDataFrame == [ columns |-> << >>, rows |-> << >> ]

\* DataFrame.empty
EmptyIgnoresRows(d) == Len(d.columns) = 0
Empty(d) == Len(d.columns) = 0 \/ Len(d.rows) = 0

\* df.columns = [str(c).strip() for c in df.columns]
StripColumns(d) ==
    [ d EXCEPT !.columns = [ i \in 1..Len(d.columns) |-> strip(d.columns[i]) ] ]

ColIndex(d, c) == CHOOSE i \in 1..Len(d.columns) : d.columns[i] = c
HasCol(d, c) == c \in Range(d.columns)
Cell(d, r, c) == d.rows[r][ColIndex(d, c)]

---------------------------------------------------------------------------
(* extract_results_table                                                   *)

typical_headers ==
    { sPos, sNo, sName, sYear, sTime, sStatus, sClub, sUciId, sPace }

\* the score of one table, on its normalised column labels
Score(columns) ==
    Cardinality({ token \in typical_headers :
                    \E i \in 1..Len(columns) : Contains(token, columns[i]) })

\* `if score > best_score`
BetterLastWins(score, best_score) == score >= best_score
Better(score, best_score) == score > best_score

\* the for loop over tables, from table i on, carrying best_df / best_score
RECURSIVE BestFrom(_, _, _, _)
BestFrom(tables, i, best_df, best_score) ==
    IF i > Len(tables) THEN best_df
    ELSE LET d == StripColumns(tables[i])
             score == Score(d.columns)
         IN IF Better(score, best_score)
            THEN BestFrom(tables, i + 1, Some(d), score)
            ELSE BestFrom(tables, i + 1, best_df, best_score)

\* the fallback after the loop: max(tables, key=len), the first largest
Largest(tables) ==
    LET i == CHOOSE i \in 1..Len(tables) :
                 /\ \A j \in 1..Len(tables) :
                        Len(tables[j].rows) <= Len(tables[i].rows)
                 /\ \A j \in 1..(i - 1) :
                        Len(tables[j].rows) < Len(tables[i].rows)
    IN Some(StripColumns(tables[i]))

\* tables: what pd.read_html parsed from the markup; with none it raises
\* ValueError and the function returns None.
extract_results_table(tables) ==
    IF tables = << >> THEN None
    ELSE LET best_df == BestFrom(tables, 1, None, -1)
         IN IF best_df = None THEN Largest(tables) ELSE best_df

---------------------------------------------------------------------------
(* URLs and find_next_page_url                                             *)
(*                                                                         *)
(* A URL is [path, page]: the last path segment and the page number of its *)
(* query string, 0 for no query string.  Two URLs are the same string      *)
(* exactly when the records are equal.  A link target (href) is            *)
(*   kind "abs":   an absolute URL                                         *)
(*   kind "query": "?page=n"                                               *)
(*   kind "rel":   a relative last path segment                            *)
(*   kind "empty": the empty string                                        *)
(* and an anchor is [rel, text, href], href None when the attribute is     *)
(* missing.                                                                *)

Url(path, page) == [ path |-> path, page |-> page ]
Href(kind, path, page) == [ kind |-> kind, path |-> path, page |-> page ]
EmptyHref == Href("empty", "", 0)

\* urllib.parse.urljoin(current_url, href), for a non-empty href
urljoin(current_url, href) ==
    CASE href.kind = "abs"   -> Url(href.path, href.page)
      [] href.kind = "query" -> Url(current_url.path, href.page)
      [] href.kind = "rel"   -> Url(href.path, 0)
      [] OTHER               -> current_url

\* a.get("href") is truthy: the attribute is there and is not ""
HasHref(a) == a.href # None /\ Get(a.href).kind # "empty"

tNext     == << "n", "e", "x", "t" >>
tNextRaq  == << "n", "e", "x", "t", " ", cRaquo >>
tNextPage == << "n", "e", "x", "t", " ", "p", "a", "g", "e" >>
tGt       == << ">" >>
tSGt      == << cSRaquo >>
tGtGt     == << ">", ">" >>
tMore     == << "m", "o", "r", "e" >>
tWeiter   == << "w", "e", "i", "t", "e", "r" >>
tNaechste == << "n", cAuml, "c", "h", "s", "t", "e" >>

possible_texts ==
    { tNext, tNextRaq, tNextPage, tGt, tSGt, tGtGt, tMore, tWeiter, tNaechste }

\* text = (a.get_text() or "").strip().lower(); text in possible_texts
TextMatches(a) == lower(strip(a.text)) \in possible_texts

\* soup.find("a", rel="next"): the first such anchor, None without one
FindRelNext(anchors) ==
    IF \E i \in 1..Len(anchors) : anchors[i].rel
    THEN Some(anchors[CHOOSE i \in 1..Len(anchors) :
                          /\ anchors[i].rel
                          /\ \A j \in 1..(i - 1) : ~anchors[j].rel])
    ELSE None

\* the loop over soup.find_all("a"), from anchor i on
RECURSIVE TextScan(_, _, _)
TextScan(anchors, i, current_url) ==
    IF i > Len(anchors) THEN None
    ELSE IF TextMatches(anchors[i]) /\ HasHref(anchors[i])
         THEN Some(urljoin(current_url, Get(anchors[i].href)))
         ELSE TextScan(anchors, i + 1, current_url)

find_next_page_urlTextFirst(anchors, current_url) ==
    LET t == TextScan(anchors, 1, current_url)
        link == FindRelNext(anchors)
    IN IF t # None THEN t
       ELSE IF link # None /\ HasHref(Get(link))
            THEN Some(urljoin(current_url, Get(Get(link).href)))
            ELSE None

find_next_page_url(anchors, current_url) ==
    LET link == FindRelNext(anchors)
    IN IF link # None /\ HasHref(Get(link))
       THEN Some(urljoin(current_url, Get(Get(link).href)))
       ELSE TextScan(anchors, 1, current_url)

---------------------------------------------------------------------------
(* The tail of scrape_all_pages: pd.concat and drop_duplicates             *)

\* the labels of frames i.. that are not in cols yet, in order of appearance
RECURSIVE UnionColumns(_, _, _)
UnionColumns(frames, i, cols) ==
    IF i > Len(frames) THEN cols
    ELSE LET fresh == SelectSeq(frames[i].columns,
                                LAMBDA c : c \notin Range(cols))
         IN UnionColumns(frames, i + 1, cols \o fresh)

\* the rows of frame f laid out on cols, NaN where f has no such column
Reindex(f, cols) ==
    [ r \in 1..Len(f.rows) |->
        [ k \in 1..Len(cols) |->
            IF HasCol(f, cols[k]) THEN Cell(f, r, cols[k]) ELSE NaN ] ]

RECURSIVE ConcatRows(_, _, _)
ConcatRows(frames, i, cols) ==
    IF i > Len(frames) THEN << >>
    ELSE Reindex(frames[i], cols) \o ConcatRows(frames, i + 1, cols)

\* pd.concat(all_frames, ignore_index=True)
concat(frames) ==
    LET cols == UnionColumns(frames, 1, << >>)
    IN [ columns |-> cols, rows |-> ConcatRows(frames, 1, cols) ]

identity_names ==
    { << "p", "o", "s" >>, << "n", "o" >>, << "n", "a", "m", "e" >> }

\* [c for c in big.columns if c.lower() in ("pos", "no", "name")]
dedup_cols(big) ==
    SelectSeq(big.columns, LAMBDA c : lower(c) \in identity_names)

\* the values of row r in the columns of subset
KeyOf(d, r, subset) == [ k \in 1..Len(subset) |-> Cell(d, r, subset[k]) ]

\* big.drop_duplicates(subset=subset): the first row of each key is kept
drop_duplicatesKeepLast(d, subset) ==
    LET keys == [ r \in 1..Len(d.rows) |-> KeyOf(d, r, subset) ]
        keep == { r \in 1..Len(d.rows) :
                    \A q \in (r + 1)..Len(d.rows) : keys[q] # keys[r] }
        idx == SelectSeq([ r \in 1..Len(d.rows) |-> r ], LAMBDA r : r \in keep)
    IN [ d EXCEPT !.rows = [ k \in 1..Len(idx) |-> d.rows[idx[k]] ] ]

drop_duplicates(d, subset) ==
    LET keys == [ r \in 1..Len(d.rows) |-> KeyOf(d, r, subset) ]
        keep == { r \in 1..Len(d.rows) :
                    \A q \in 1..(r - 1) : keys[q] # keys[r] }
        idx == SelectSeq([ r \in 1..Len(d.rows) |-> r ], LAMBDA r : r \in keep)
    IN [ d EXCEPT !.rows = [ k \in 1..Len(idx) |-> d.rows[idx[k]] ] ]

\* scrape_all_pages from `if not all_frames` to its return
MergeFrames(frames) ==
    IF frames = << >> THEN EmptyDataFrame
    ELSE LET big == concat(frames)
             subset == dedup_cols(big)
         IN IF subset # << >> THEN drop_duplicates(big, subset) ELSE big

---------------------------------------------------------------------------
(* normalize_name_column and select_and_order_columns                      *)

REQUESTED_COLUMNS ==
    << sPos, sNo, sName, sYear, sTime, sDiff, sCat, sCatPos, sCatDiff,
       sSex, sSexPos, sSexDiff, sClub, sPace, sCity, sStatus, sUciId >>

\* .astype(str) on one cell
astype_str(v) == IF v = NaN THEN sNan ELSE v

\* s has a run of two or more whitespace characters starting at i
GapAt(s, i) == i < Len(s) /\ s[i] \in Whitespace /\ s[i + 1] \in Whitespace
HasGap(s) == \E i \in 1..Len(s) : GapAt(s, i)

\* .str.split(r"\s{2,}", n=1).str[0]
BeforeGap(s) ==
    IF HasGap(s)
    THEN LET i == CHOOSE i \in 1..Len(s) :
                      GapAt(s, i) /\ \A j \in 1..(i - 1) : ~GapAt(s, j)
         IN SubSeq(s, 1, i - 1)
    ELSE s

clean_nameNoStrip(v) == BeforeGap(astype_str(v))
clean_name(v) == strip(BeforeGap(astype_str(v)))

\* the Name column replaced cell by cell with its cleaned text; a frame
\* without a Name column is returned as it is
normalize_name_column(d) ==
    IF HasCol(d, sName)
    THEN [ d EXCEPT !.rows =
             [ r \in 1..Len(d.rows) |->
                 [ d.rows[r] EXCEPT ![ColIndex(d, sName)] =
                       clean_name(d.rows[r][ColIndex(d, sName)]) ] ] ]
    ELSE d

\* the loop `for col in REQUESTED_COLUMNS: if col not in df.columns: df[col] = ""`:
\* each missing column is appended, in the order of REQUESTED_COLUMNS
EnsureColumns(d) ==
    LET missing == SelectSeq(REQUESTED_COLUMNS, LAMBDA c : ~HasCol(d, c))
    IN [ columns |-> d.columns \o missing,
         rows |-> [ r \in 1..Len(d.rows) |->
                      d.rows[r] \o [ k \in 1..Len(missing) |-> sEmpty ] ] ]

\* df[cols]
Project(d, cols) ==
    [ columns |-> cols,
      rows |-> [ r \in 1..Len(d.rows) |->
                   [ k \in 1..Len(cols) |-> Cell(d, r, cols[k]) ] ] ]

select_and_order_columnsThenDedup(d) ==
    LET out == Project(normalize_name_column(EnsureColumns(d)),
                       REQUESTED_COLUMNS)
    IN drop_duplicates(out, << sPos, sNo, sName >>)

select_and_order_columns(d) ==
    Project(normalize_name_column(EnsureColumns(d)), REQUESTED_COLUMNS)

\* write_csv: the header line and the data lines, in order; to_csv writes a
\* missing cell as the empty field
write_csv(d) ==
    << d.columns >> \o
    [ r \in 1..Len(d.rows) |->
        [ k \in 1..Len(d.columns) |->
            IF d.rows[r][k] = NaN THEN sEmpty ELSE d.rows[r][k] ] ]

---------------------------------------------------------------------------
(* The program: main and scrape_all_pages, one action per step.            *)

Frame(columns, rows) == [ columns |-> columns, rows |-> rows ]
Page(tables, anchors) == [ tables |-> tables, anchors |-> anchors ]
Anchor(rel, text, href) == [ rel |-> rel, text |-> text, href |-> href ]
NoPage == Page(<< >>, << >>)

\* every sequence over S of length lo..hi
SeqsOf(S, lo, hi) == UNION { [ 1..n -> S ] : n \in lo..hi }

\* cell texts
v1   == << "1" >>
v2   == << "2" >>
vW   == << "W" >>
vG   == << "G" >>
vAl  == << "A", "l" >>
vBo  == << "B", "o" >>
vAlX == << "A", "l", " ", " ", "X" >>
vAlY == << "A", "l", " ", " ", "Y" >>

\* column labels as a page may spell them
sPosPadded == << " ", "P", "o", "s", " " >>
sNameUpper == << "N", "A", "M", "E" >>
sPosLower  == << "p", "o", "s" >>
sNameLower == << "n", "a", "m", "e" >>
sNotes     == << "N", "o", "t", "e", "s" >>
sMenu      == << "M", "e", "n", "u" >>

\* The pages a site may serve in a scrape run.
SiteTables ==
    { << >>,
      << Frame(<< sPos, sName >>, << >>) >>,
      << Frame(<< sMenu >>, << << vW >> >>),
         Frame(<< sPosPadded, sName >>, << << v1, vAlX >> >>) >>,
      << Frame(<< sPos, sName >>, << << v1, vAlY >>, << v1, vAlX >> >>) >> }

SiteAnchors ==
    { << >>,
      << Anchor(TRUE, << "1" >>, Some(Href("abs", "results", 0))) >> }
    \cup { << Anchor(FALSE, << "N", "e", "x", "t", " ", cRaquo >>,
                     Some(Href("query", "", n))) >> : n \in 1..MaxPageNo }

SitePages == { Page(t, a) : t \in SiteTables, a \in SiteAnchors }

StartUrls == { Url("results", 0) }

Init ==
    /\ pc = "loop"
    /\ start_url \in StartUrls
    /\ url = Some(start_url)
    /\ visited = { }
    /\ fetched = << >>
    /\ html = NoPage
    /\ df = None
    /\ all_frames = << >>
    /\ df_all = EmptyDataFrame
    /\ df_final = EmptyDataFrame
    /\ df_again = None
    /\ out_file = << >>
    /\ exit_code = None

\* `while url and url not in visited`
LoopGuardNoVisited(u, seen) == u # None
LoopGuard(u, seen) == u # None /\ Get(u) \notin seen

\* the loop is entered: visited.add(url)
LoopEnterNoAdd ==
    /\ pc = "loop"
    /\ LoopGuard(url, visited)
    /\ pc' = "fetch"
    /\ UNCHANGED << start_url, url, visited, fetched, html, df, all_frames,
                    df_all, df_final, df_again, out_file, exit_code >>

LoopEnter ==
    /\ pc = "loop"
    /\ LoopGuard(url, visited)
    /\ visited' = visited \cup { Get(url) }
    /\ pc' = "fetch"
    /\ UNCHANGED << start_url, url, fetched, html, df, all_frames, df_all,
                    df_final, df_again, out_file, exit_code >>

\* the loop is left
LoopExit ==
    /\ pc = "loop"
    /\ ~LoopGuard(url, visited)
    /\ pc' = "merge"
    /\ UNCHANGED << start_url, url, visited, fetched, html, df, all_frames,
                    df_all, df_final, df_again, out_file, exit_code >>

\* one call of fetch_html: the URL asked for, whether it returned, the markup
Fetched(u, ok, page) == [ url |-> u, ok |-> ok, page |-> page ]

\* fetch_html returns the markup
FetchOk ==
    /\ pc = "fetch"
    /\ \E page \in SitePages :
          /\ html' = page
          /\ fetched' = Append(fetched, Fetched(Get(url), TRUE, page))
    /\ pc' = "extract"
    /\ UNCHANGED << start_url, url, visited, df, all_frames, df_all,
                    df_final, df_again, out_file, exit_code >>

\* where an exception of fetch_html lands: nothing in scrape_all_pages or
\* main catches it, and the interpreter ends with status 1
AfterRaiseCaught == "merge"
AfterRaise == "raised"

\* session.get or raise_for_status raises
FetchFails ==
    /\ pc = "fetch"
    /\ fetched' = Append(fetched, Fetched(Get(url), FALSE, NoPage))
    /\ pc' = AfterRaise
    /\ exit_code' = IF AfterRaise = "raised" THEN Some(1) ELSE exit_code
    /\ UNCHANGED << start_url, url, visited, html, df, all_frames, df_all,
                    df_final, df_again, out_file >>

\* `if df is not None and not df.empty`
UsableAnyTable(d) == d # None
Usable(d) == d # None /\ ~Empty(Get(d))

\* df = extract_results_table(html) and the append to all_frames
Extract ==
    /\ pc = "extract"
    /\ df' = extract_results_table(html.tables)
    /\ all_frames' = IF Usable(df')
                     THEN Append(all_frames, StripColumns(Get(df')))
                     ELSE all_frames
    /\ pc' = "next"
    /\ UNCHANGED << start_url, url, visited, fetched, html, df_all, df_final,
                    df_again, out_file, exit_code >>

\* url = find_next_page_url(html, url)
FindNext ==
    /\ pc = "next"
    /\ url' = find_next_page_url(html.anchors, Get(url))
    /\ pc' = "loop"
    /\ UNCHANGED << start_url, visited, fetched, html, df, all_frames, df_all,
                    df_final, df_again, out_file, exit_code >>

\* the rest of scrape_all_pages; main binds its result to df_all
Merge ==
    /\ pc = "merge"
    /\ df_all' = MergeFrames(all_frames)
    /\ pc' = "main"
    /\ UNCHANGED << start_url, url, visited, fetched, html, df, all_frames,
                    df_final, df_again, out_file, exit_code >>

\* main: `if df_all.empty: ... return 1`
NoData ==
    /\ pc = "main"
    /\ Empty(df_all)
    /\ exit_code' = Some(1)
    /\ pc' = "done"
    /\ UNCHANGED << start_url, url, visited, fetched, html, df, all_frames,
                    df_all, df_final, df_again, out_file >>

\* main: df_final = select_and_order_columns(df_all)
Select ==
    /\ pc = "main"
    /\ ~Empty(df_all)
    /\ df_final' = select_and_order_columns(df_all)
    /\ pc' = "write"
    /\ UNCHANGED << start_url, url, visited, fetched, html, df, all_frames,
                    df_all, df_again, out_file, exit_code >>

\* main: write_csv(df_final, args.output)
Write ==
    /\ pc = "write"
    /\ out_file' = Append(out_file, write_csv(df_final))
    /\ pc' = "return"
    /\ UNCHANGED << start_url, url, visited, fetched, html, df, all_frames,
                    df_all, df_final, df_again, exit_code >>

\* main: return 0
Return ==
    /\ pc = "return"
    /\ exit_code' = Some(0)
    /\ pc' = "done"
    /\ UNCHANGED << start_url, url, visited, fetched, html, df, all_frames,
                    df_all, df_final, df_again, out_file >>

Next ==
    \/ LoopEnter \/ LoopExit \/ FetchOk \/ FetchFails \/ Extract \/ FindNext
    \/ Merge \/ NoData \/ Select \/ Write \/ Return

Spec == Init /\ [][Next]_vars

\* The program is one sequential process: inside the loop of
\* scrape_all_pages a step that can be taken is taken (session.get returns
\* or raises within its timeout).
FairSpec ==
    /\ Spec
    /\ WF_vars(LoopEnter) /\ WF_vars(LoopExit)
    /\ WF_vars(FetchOk \/ FetchFails)
    /\ WF_vars(Extract) /\ WF_vars(FindNext)

---------------------------------------------------------------------------
(* Runs of one function on a wider range of inputs.  Each starts in the    *)
(* state main is in when it reaches the function and takes that step.      *)

\* the state after the start page u was fetched as `page`
AtFirstPage(u, page, at) ==
    /\ pc = at
    /\ start_url = u
    /\ url = Some(u)
    /\ visited = { u }
    /\ fetched = << Fetched(u, TRUE, page) >>
    /\ html = page
    /\ df = None
    /\ all_frames = << >>
    /\ df_all = EmptyDataFrame
    /\ df_final = EmptyDataFrame
    /\ df_again = None
    /\ out_file = << >>
    /\ exit_code = None

\* extract_results_table: the candidate tables of one page
CandidateTables ==
    { Frame(<< sPosPadded, sName, sTime >>, << << v1, vAl, vW >> >>),
      Frame(<< sNo, sName, sStatus >>, << << v1, vBo, vG >> >>),
      Frame(<< sCatPos, sCity >>, << << v1, vW >> >>),
      Frame(<< sPos, sCatPos >>, << << v1, v2 >>, << v2, v1 >> >>),
      Frame(<< sPosLower, sNameLower >>, << << v1, vAl >> >>),
      Frame(<< sNotes >>, << << vW >> >>),
      Frame(<< sMenu >>, << << vW >>, << vG >> >>),
      Frame(<< sName, sNo >>, << >>) }

InitExtract ==
    \E tables \in SeqsOf(CandidateTables, 0, MaxTables) :
        AtFirstPage(Url("results", 0), Page(tables, << >>), "extract")

SpecExtract == InitExtract /\ [][Extract]_vars

\* find_next_page_url: the anchors of one page
tPadded == << " ", "N", "e", "x", "t", " ", cRaquo, " " >>
tUpper  == << "N", "E", "X", "T", " ", "P", "A", "G", "E" >>
tOther  == << "2" >>

AnchorSet ==
    { Anchor(TRUE, tOther, Some(Href("query", "", 2))),
      Anchor(TRUE, tNext, None),
      Anchor(TRUE, tOther, Some(EmptyHref)),
      Anchor(FALSE, tPadded, Some(Href("rel", "p2", 0))),
      Anchor(FALSE, tGt, None),
      Anchor(FALSE, tMore, Some(EmptyHref)),
      Anchor(FALSE, tUpper, Some(Href("abs", "results", 3))),
      Anchor(FALSE, tOther, Some(Href("query", "", 1))),
      Anchor(FALSE, tNaechste, Some(Href("query", "", 4))) }

InitNextPage ==
    \E anchors \in SeqsOf(AnchorSet, 0, MaxAnchors) :
        \E u \in { Url("results", 1), Url("list", 0) } :
            AtFirstPage(u, Page(<< >>, anchors), "next")

SpecNextPage == InitNextPage /\ [][FindNext]_vars

\* the merge: the frames accumulated when the loop was left
MergeRows(columns) ==
    IF columns = << sPos, sName, sCity >>
    THEN { << v1, vAl, vW >>, << v1, vAl, vG >>, << v2, vBo, vW >> }
    ELSE IF columns = << sNameUpper, sCity >>
    THEN { << vAl, vG >> }
    ELSE { << vW >> }

MergeColumns == { << sPos, sName, sCity >>, << sNameUpper, sCity >>, << sCity >> }

MergeInputs ==
    UNION { { Frame(c, rows) : rows \in SeqsOf(MergeRows(c), 1, MaxRows) } :
            c \in MergeColumns }

InitMerge ==
    \E frames \in SeqsOf(MergeInputs, 1, MaxFrames) :
        /\ pc = "merge"
        /\ start_url = Url("results", 0)
        /\ url = None
        /\ visited = { Url("results", n) : n \in 0..(Len(frames) - 1) }
        /\ fetched = [ n \in 1..Len(frames) |->
                         Fetched(Url("results", n - 1), TRUE,
                                 Page(<< frames[n] >>, << >>)) ]
        /\ html = Page(<< frames[Len(frames)] >>, << >>)
        /\ df = Some(frames[Len(frames)])
        /\ all_frames = frames
        /\ df_all = EmptyDataFrame
        /\ df_final = EmptyDataFrame
        /\ df_again = None
        /\ out_file = << >>
        /\ exit_code = None

SpecMerge == InitMerge /\ [][Merge]_vars

\* select_and_order_columns: the merged frame main hands to it
nPadded  == << " ", "A", "l" >>
nLeadGap == << " ", " ", "A", "l" >>
nTabGap  == << "A", "l", " ", TAB, "X", " ", " ", "Y" >>
nSingle  == << "A", " ", "l", " " >>
nTrail   == << "A", "l", " ", " " >>

NameCells == { vAlX, nPadded, nLeadGap, nTabGap, nSingle, nTrail, vBo, NaN }

SelectInputs ==
    { Frame(<< sName, sMenu, sPos >>, rows) :
        rows \in SeqsOf({ << n, vW, v1 >> : n \in NameCells }, 1, MaxRows) }
    \cup { Frame(<< sCity, sPos >>, rows) :
             rows \in SeqsOf({ << vW, v1 >>, << vG, NaN >> }, 1, MaxRows) }

InitSelect ==
    \E d \in SelectInputs :
        /\ pc = "main"
        /\ start_url = Url("results", 0)
        /\ url = None
        /\ visited = { start_url }
        /\ fetched = << Fetched(start_url, TRUE, Page(<< d >>, << >>)) >>
        /\ html = Page(<< d >>, << >>)
        /\ df = Some(d)
        /\ all_frames = << d >>
        /\ df_all = d
        /\ df_final = EmptyDataFrame
        /\ df_again = None
        /\ out_file = << >>
        /\ exit_code = None

\* select_and_order_columns applied to the frame it returned
Reselect ==
    /\ pc = "write"
    /\ df_again = None
    /\ df_again' = Some(select_and_order_columns(df_final))
    /\ UNCHANGED << pc, start_url, url, visited, fetched, html, df, all_frames,
                    df_all, df_final, out_file, exit_code >>

NextSelect == Select \/ Reselect

SpecSelect == InitSelect /\ [][NextSelect]_vars

---------------------------------------------------------------------------
(* Properties of the scrape run (Spec).                                    *)

FetchedUrls == { fetched[i].url : i \in 1..Len(fetched) }
SomeFetchFailed == \E i \in 1..Len(fetched) : ~fetched[i].ok
LeftLoop == pc \in { "merge", "main", "write", "return", "done" }

\* C1: no URL is fetched twice; when the next-page URL found on a page is
\* already visited (the start URL or the page's own URL included) the loop
\* is left at once, and nothing is fetched after the loop was left.
C1_NoRefetch ==
    /\ [](\A i, j \in 1..Len(fetched) :
            fetched[i].url = fetched[j].url => i = j)
    /\ [][ (pc = "loop" /\ url # None /\ Get(url) \in visited)
             => (pc' = "merge" /\ fetched' = fetched) ]_vars
    /\ [][ LeftLoop => (LeftLoop' /\ fetched' = fetched) ]_vars

\* a run that came back to a visited URL after at least two pages and left
\* the loop there
C1_Witness ==
    /\ pc = "merge"
    /\ url # None
    /\ Len(fetched) >= 2
    /\ Get(url) \in { start_url, fetched[Len(fetched)].url }
    /\ Get(url) \in visited

\* C2: once a fetch has failed the run is over: the failed fetch is the last
\* one, the Writer was not and is not invoked, no output exists, and the
\* exit status is set and is not 0.
C2_FetchFailureAborts ==
    SomeFetchFailed =>
        /\ ~fetched[Len(fetched)].ok
        /\ \A i \in 1..(Len(fetched) - 1) : fetched[i].ok
        /\ pc = "raised"
        /\ out_file = << >>
        /\ exit_code # None
        /\ exit_code # Some(0)

\* a later page fails after an earlier page contributed a table
C2_Witness ==
    /\ SomeFetchFailed
    /\ Len(fetched) >= 2
    /\ all_frames # << >>

\* the table the Extractor picks on a page has at least one row (and column)
YieldsRows(page) ==
    LET t == extract_results_table(page.tables)
    IN t # None /\ Len(Get(t).rows) > 0 /\ Len(Get(t).columns) > 0

SomePageYielded ==
    \E i \in 1..Len(fetched) : fetched[i].ok /\ YieldsRows(fetched[i].page)

\* C3: when every fetch succeeded, main ends with 1 and no write exactly when
\* no visited page yielded a non-empty table; otherwise it wrote exactly once
\* and ends with 0.  A write happens only after the loop was left, and at
\* most once.
C3_ExitCode ==
    /\ Len(out_file) <= 1
    /\ out_file # << >> => pc \in { "return", "done" }
    /\ pc = "done" =>
         /\ ~SomePageYielded <=> (exit_code = Some(1) /\ out_file = << >>)
         /\ SomePageYielded => (exit_code = Some(0) /\ Len(out_file) = 1)

\* a finished run whose first page yielded nothing and whose later page
\* yielded rows: one write, exit status 0
C3_Witness ==
    /\ pc = "done"
    /\ Len(fetched) >= 2
    /\ ~YieldsRows(fetched[1].page)
    /\ SomePageYielded
    /\ exit_code = Some(0)
    /\ Len(out_file) = 1

---------------------------------------------------------------------------
(* Properties of extract_results_table (SpecExtract).                      *)

\* text `token` occurs in text `col` at offset i
OccursAt(token, col, i) ==
    /\ i + Len(token) <= Len(col)
    /\ \A k \in 1..Len(token) : col[i + k] = token[k]

Tokens == << sPos, sNo, sName, sYear, sTime, sStatus, sClub, sUciId, sPace >>

\* the number of tokens that occur in at least one trimmed label of table t
TokenCount(t) ==
    Cardinality({ n \in 1..Len(Tokens) :
        \E c \in 1..Len(t.columns) :
            \E i \in 0..Len(t.columns[c]) :
                OccursAt(Tokens[n], strip(t.columns[c]), i) })

\* table i of the page is the first one of maximal score
FirstBest(tables, i) ==
    /\ \A j \in 1..Len(tables) : TokenCount(tables[j]) <= TokenCount(tables[i])
    /\ \A j \in 1..(i - 1) : TokenCount(tables[j]) < TokenCount(tables[i])

\* C4: on a page with candidate tables the Extractor returns the first table
\* of maximal score (its rows, its labels trimmed); a later table of equal
\* score never replaces it.
C4_FirstMaxScore ==
    (pc = "next" /\ html.tables # << >>) =>
        \E i \in 1..Len(html.tables) :
            /\ FirstBest(html.tables, i)
            /\ df # None
            /\ Get(df).rows = html.tables[i].rows
            /\ Get(df).columns =
                 [ c \in 1..Len(html.tables[i].columns) |->
                     strip(html.tables[i].columns[c]) ]

\* two different tables tie for the maximum, which is above 0, and a label
\* had to be trimmed
C4_Witness ==
    /\ pc = "next"
    /\ Len(html.tables) = 3
    /\ \E i, j \in 1..3 :
         /\ i < j
         /\ FirstBest(html.tables, i)
         /\ TokenCount(html.tables[j]) = TokenCount(html.tables[i])
         /\ TokenCount(html.tables[i]) = 3
         /\ html.tables[i] # html.tables[j]
         /\ Get(df).rows = html.tables[i].rows
         /\ Get(df).columns # html.tables[j].columns

---------------------------------------------------------------------------
(* Properties of the merge (SpecMerge).                                    *)

\* the rows of the accumulated frames in page order, then row order, each
\* as << frame, row >>
RECURSIVE FlatFrom(_, _)
FlatFrom(frames, f) ==
    IF f > Len(frames) THEN << >>
    ELSE [ r \in 1..Len(frames[f].rows) |-> << f, r >> ] \o FlatFrom(frames, f + 1)

\* the value of source row e = << f, r >> in column c, NaN without the column
SourceCell(frames, e, c) ==
    LET t == frames[e[1]]
    IN IF \E k \in 1..Len(t.columns) : t.columns[k] = c
       THEN t.rows[e[2]][CHOOSE k \in 1..Len(t.columns) : t.columns[k] = c]
       ELSE NaN

AllColumns(frames) ==
    UNION { { frames[f].columns[k] : k \in 1..Len(frames[f].columns) } :
            f \in 1..Len(frames) }

IdentityColumns(frames) ==
    { c \in AllColumns(frames) :
        lower(c) \in { << "p", "o", "s" >>, << "n", "o" >>, << "n", "a", "m", "e" >> } }

\* source rows e1 and e2 agree on every column of ids
SameOn(frames, ids, e1, e2) ==
    \A c \in ids : SourceCell(frames, e1, c) = SourceCell(frames, e2, c)

SameIdentity(frames, e1, e2) ==
    SameOn(frames, IdentityColumns(frames), e1, e2)

\* the positions of flat that survive, in order: all of them when ids is
\* empty, else those with no earlier row that agrees on ids
SurvivorsOn(frames, flat, ids) ==
    LET first(n) == ids = { } \/
                    \A m \in 1..(n - 1) : ~SameOn(frames, ids, flat[m], flat[n])
    IN SelectSeq([ n \in 1..Len(flat) |-> n ], first)

Survivors(frames) ==
    SurvivorsOn(frames, FlatFrom(frames, 1), IdentityColumns(frames))

\* C5: the merged rows are the surviving source rows, in page order then row
\* order, each with its own values in every column.
C5_MergeOrderAndDedup ==
    pc = "main" =>
        LET flat == FlatFrom(all_frames, 1)
            keep == Survivors(all_frames)
        IN /\ Range(df_all.columns) = AllColumns(all_frames)
           /\ Len(df_all.rows) = Len(keep)
           /\ \A n \in 1..Len(df_all.rows) :
                \A k \in 1..Len(df_all.columns) :
                    df_all.rows[n][k] =
                        SourceCell(all_frames, flat[keep[n]], df_all.columns[k])

\* two pages; a row of the second page repeats the identity of a row of the
\* first with another City and is removed, a row after it is kept
C5_Witness ==
    /\ pc = "main"
    /\ Len(all_frames) = 2
    /\ LET flat == FlatFrom(all_frames, 1)
           keep == Range(Survivors(all_frames))
       IN /\ IdentityColumns(all_frames) # { }
          /\ \E n \in 1..Len(flat) :
               /\ n \notin keep
               /\ flat[n][1] = 2
               /\ n + 1 \in keep
               /\ \E m \in keep :
                    /\ m < n
                    /\ SameIdentity(all_frames, flat[m], flat[n])
                    /\ SourceCell(all_frames, flat[m], sCity)
                         # SourceCell(all_frames, flat[n], sCity)

\* frames without any identity column: every row is kept, repeated rows too
C5_WitnessNoIdentity ==
    /\ pc = "main"
    /\ IdentityColumns(all_frames) = { }
    /\ Len(df_all.rows) >= 2
    /\ df_all.rows[1] = df_all.rows[2]

---------------------------------------------------------------------------
(* Properties of find_next_page_url (SpecNextPage).                        *)

PhraseSet ==
    { tNext, tNextRaq, tNextPage, tGt, tSGt, tGtGt, tMore, tWeiter, tNaechste }

HasPhrase(a) == lower(strip(a.text)) \in PhraseSet
HasTarget(a) == a.href # None /\ a.href # Some(EmptyHref)
Resolved(a, base) == Some(urljoin(base, Get(a.href)))

\* position i holds the first anchor of the page that satisfies P
FirstWith(anchors, i, P(_)) ==
    /\ i \in 1..Len(anchors)
    /\ P(anchors[i])
    /\ \A j \in 1..(i - 1) : ~P(anchors[j])

IsRelNext(a) == a.rel
RelNextWithTarget(anchors) ==
    \E i \in 1..Len(anchors) :
        FirstWith(anchors, i, IsRelNext) /\ HasTarget(anchors[i])

\* C6 as claimed: the rel="next" anchor's target when it has one; otherwise
\* the target of the first anchor whose text is a phrase (nothing when that
\* anchor has no target); nothing when there is neither.
C6_Original ==
    pc = "loop" =>
        LET anchors == html.anchors
            base == start_url
        IN /\ \A i \in 1..Len(anchors) :
                (FirstWith(anchors, i, IsRelNext) /\ HasTarget(anchors[i]))
                    => url = Resolved(anchors[i], base)
           /\ ~RelNextWithTarget(anchors) =>
                /\ \A i \in 1..Len(anchors) :
                     FirstWith(anchors, i, HasPhrase) =>
                        url = IF HasTarget(anchors[i])
                              THEN Resolved(anchors[i], base) ELSE None
                /\ (\A i \in 1..Len(anchors) : ~HasPhrase(anchors[i]))
                     => url = None

PhraseWithTarget(a) == HasPhrase(a) /\ HasTarget(a)

\* C6 amended: the first rel="next" anchor's target when it has a non-empty
\* one, whatever text anchors precede it; otherwise the target of the first
\* anchor that has both a phrase as text and a non-empty target; nothing
\* when there is no such anchor.
C6_RelThenText ==
    pc = "loop" =>
        LET anchors == html.anchors
            base == start_url
        IN /\ \A i \in 1..Len(anchors) :
                (FirstWith(anchors, i, IsRelNext) /\ HasTarget(anchors[i]))
                    => url = Resolved(anchors[i], base)
           /\ ~RelNextWithTarget(anchors) =>
                /\ \A i \in 1..Len(anchors) :
                     FirstWith(anchors, i, PhraseWithTarget) =>
                        url = Resolved(anchors[i], base)
                /\ (\A i \in 1..Len(anchors) : ~PhraseWithTarget(anchors[i]))
                     => url = None

\* a text anchor with a target comes first, the rel="next" anchor after it
\* wins, and the two lead to different URLs
C6_Witness ==
    /\ pc = "loop"
    /\ \E i, j \in 1..Len(html.anchors) :
         /\ i < j
         /\ PhraseWithTarget(html.anchors[i])
         /\ FirstWith(html.anchors, j, IsRelNext)
         /\ HasTarget(html.anchors[j])
         /\ url = Resolved(html.anchors[j], start_url)
         /\ url # Resolved(html.anchors[i], start_url)

---------------------------------------------------------------------------
(* Properties of select_and_order_columns (SpecSelect).                    *)

IsSpace(c) == c = " " \/ c = TAB

\* no leading or trailing whitespace and no two whitespace characters in a row
CleanText(t) ==
    /\ t # << >> => (~IsSpace(t[1]) /\ ~IsSpace(t[Len(t)]))
    /\ \A i \in 1..(Len(t) - 1) : ~(IsSpace(t[i]) /\ IsSpace(t[i + 1]))

\* C8: applied to the frame it returned, select_and_order_columns returns
\* that frame again: the 17 requested columns in their order, the same rows
\* in the same order, every Name unchanged and clean.
C8_Idempotent ==
    df_again # None =>
        /\ Get(df_again) = df_final
        /\ Len(df_final.columns) = 17
        /\ df_final.columns = REQUESTED_COLUMNS
        /\ Len(df_final.rows) = Len(df_all.rows)
        /\ \A r \in 1..Len(df_final.rows) :
             /\ Len(df_final.rows[r]) = 17
             /\ Get(df_again).rows[r][3] = df_final.rows[r][3]
             /\ CleanText(df_final.rows[r][3])
             /\ df_final.rows[r][1] =
                  SourceCell(<< df_all >>, << 1, r >>, sPos)

\* the input had a Name with a whitespace run, padding or no text at all,
\* lacked requested columns and carried a column that is not requested
C8_Witness ==
    /\ df_again # None
    /\ Len(df_all.columns) < 17
    /\ sMenu \in Range(df_all.columns)
    /\ Len(df_all.rows) = 2
    /\ SourceCell(<< df_all >>, << 1, 1 >>, sName) = nTabGap
    /\ SourceCell(<< df_all >>, << 1, 2 >>, sName) = nPadded
    /\ df_final.rows[1][3] = vAl
    /\ df_final.rows[2][3] = vAl

---------------------------------------------------------------------------
(* Further properties of the scrape run (Spec, FairSpec).                  *)

\* fetch i returned and its page has been through the Extractor
Processed(i) ==
    /\ i \in 1..Len(fetched)
    /\ fetched[i].ok
    /\ (i = Len(fetched) => pc # "extract")

\* fetch i returned and its page has been through the Pagination Detector
Decided(i) == Processed(i) /\ (i = Len(fetched) => pc # "next")

NextLink(i) == find_next_page_url(fetched[i].page.anchors, fetched[i].url)

\* the row r of table t has a row of the same Pos and Name in frame d
Represented(t, r, d) ==
    \E n \in 1..Len(d.rows) :
        \A c \in { sPos, sName } :
            SourceCell(<< d >>, << 1, n >>, c) = SourceCell(<< StripColumns(t) >>, << 1, r >>, c)

\* C7: a page that yields no table or only an empty one adds nothing to the
\* accumulated list and does not end the run: the list holds one frame per
\* page that yielded rows, the page's next link, when found and not visited
\* before, is the next URL fetched, and the rows of pages that yielded rows
\* are represented in the merged frame.
C7_EmptyPageContinues ==
    /\ Len(all_frames) =
         Cardinality({ i \in 1..Len(fetched) :
                         Processed(i) /\ YieldsRows(fetched[i].page) })
    /\ \A i \in 1..Len(fetched) :
         (Decided(i) /\ ~YieldsRows(fetched[i].page)) =>
            IF NextLink(i) # None
               /\ \A j \in 1..i : fetched[j].url # Get(NextLink(i))
            THEN IF i < Len(fetched)
                 THEN fetched[i + 1].url = Get(NextLink(i))
                 ELSE pc \in { "loop", "fetch" }
            ELSE i = Len(fetched) /\ pc # "fetch"
    /\ pc \in { "main", "write", "return", "done" } =>
         \A i \in 1..Len(fetched) :
            YieldsRows(fetched[i].page) =>
               LET t == Get(extract_results_table(fetched[i].page.tables))
               IN \A r \in 1..Len(t.rows) : Represented(t, r, df_all)

\* the start page has no table, the second has a table without rows, the
\* third has rows, and the run ended with those rows written
C7_Witness ==
    /\ pc = "done"
    /\ Len(fetched) = 3
    /\ fetched[1].page.tables = << >>
    /\ fetched[2].page.tables # << >>
    /\ ~YieldsRows(fetched[2].page)
    /\ YieldsRows(fetched[3].page)
    /\ Len(df_all.rows) >= 1
    /\ Len(out_file) = 1
    /\ exit_code = Some(0)

\* every URL a link of the site can lead to from the start URL
ReachableUrls == { start_url } \cup { Url("results", n) : n \in 0..MaxPageNo }

\* the iterations of the loop begun so far
Iterations == Len(fetched) + (IF pc = "fetch" THEN 1 ELSE 0)

\* C9: the loop is left or the run aborts; a URL is in visited, and was not
\* fetched before, when it is about to be fetched; visited holds exactly one
\* URL per iteration; the number of fetches never exceeds the number of
\* reachable URLs.
C9_Terminates ==
    /\ <>(LeftLoop \/ pc = "raised")
    /\ [](/\ FetchedUrls \subseteq visited
          /\ visited \subseteq ReachableUrls
          /\ pc = "fetch" =>
                (url # None /\ Get(url) \in visited \ FetchedUrls)
          /\ Cardinality(visited) = Iterations
          /\ Len(fetched) <= Cardinality(ReachableUrls))

\* the loop ran over every reachable URL and was left on a link back
C9_Witness ==
    /\ pc = "merge"
    /\ visited = ReachableUrls
    /\ Len(fetched) = Cardinality(ReachableUrls)
    /\ url # None

\* the text before the first run of two or more whitespace characters
RECURSIVE Prefix(_, _)
Prefix(t, n) ==
    IF n >= Len(t) THEN t
    ELSE IF IsSpace(t[n + 1]) /\ n + 2 <= Len(t) /\ IsSpace(t[n + 2])
         THEN SubSeq(t, 1, n)
         ELSE Prefix(t, n + 1)

\* the raw << Pos, Name >> pairs of the accumulated rows
RawKeys ==
    LET flat == FlatFrom(all_frames, 1)
    IN { << SourceCell(all_frames, flat[n], sPos),
            SourceCell(all_frames, flat[n], sName) >> : n \in 1..Len(flat) }

\* the written data lines (line 1 is the header) with Pos p and Name c
Lines(p, c) ==
    { n \in 2..Len(out_file[1]) :
        out_file[1][n][1] = p /\ out_file[1][n][3] = c }

\* C10: in a successful run the rows are de-duplicated on their raw values
\* only: for every Pos and cleaned Name the Writer receives one line per
\* distinct raw Name, so rows whose raw Names differ only after the first
\* whitespace run are all written, with the same cleaned Name.
C10_DedupBeforeClean ==
    (pc = "done" /\ exit_code = Some(0)) =>
        \A key \in RawKeys :
            Cardinality(Lines(key[1], strip(Prefix(key[2], 0)))) =
            Cardinality({ k \in RawKeys :
                            /\ k[1] = key[1]
                            /\ strip(Prefix(k[2], 0)) = strip(Prefix(key[2], 0)) })

\* two written lines carry the same Pos and the same cleaned Name
C10_Witness ==
    /\ pc = "done"
    /\ exit_code = Some(0)
    /\ \E n, m \in 2..Len(out_file[1]) :
         /\ n < m
         /\ out_file[1][n][1] = out_file[1][m][1]
         /\ out_file[1][n][3] = out_file[1][m][3]
         /\ { << v1, vAlX >>, << v1, vAlY >> } \subseteq RawKeys

=============================================================================
